---- MODULE Spec2Model ----
(***************************************************************************)
(* Change detection and notification dispatch of the Plex announcer:       *)
(* PlexDiscordBot (plex_announcer/core/discord_bot.py), PlexMonitor        *)
(* (plex_announcer/core/plex_monitor.py) and the checkpoint files          *)
(* (plex_announcer/utils/media_storage.py).                                *)
(*                                                                         *)
(* The three coroutines that run _check_for_new_media (the periodic        *)
(* check_media_task, the `!check` command and the startup check of         *)
(* on_ready) are tasks of one asyncio event loop: a task runs until its    *)
(* next await, and the only awaits inside a scan are the channel.send      *)
(* calls.  Time is a discrete clock; Day is the number of clock ticks in   *)
(* one day.                                                                *)
(***************************************************************************)
EXTENDS Integers, Sequences, FiniteSets

\* ------------------------------------------------------------------ bounds
MaxTime == 3
MaxRuns == 2
MaxFaults == 1
Day == 2
MaxReady == 2
MaxScans == 2

\* ------------------------------------------------------- program constants
LookbackDays == 1
RecentEpisodeDays == 30
ConnectRetry == 3
RunTimeout == 60

notify_movies == TRUE
notify_new_shows == TRUE
notify_recent_episodes == TRUE

\* ------------------------------------------------------------- the catalog
\* The media the library can come to hold.  m1 is a movie; e1 is season 1
\* episode 1 of a show, aired long before the recent-episode window; e2 is
\* season 1 episode 2 of that show, aired so that it leaves the
\* recent-episode window when the clock passes RecentUntil.
Movies == {"m1"}
Episodes == {"e1", "e2"}
Items == Movies \cup Episodes

NoAirDate == -100000
RecentUntil == 2
show_title(k) == "S"
season_number(k) == IF k = "e3" THEN 2 ELSE 1
episode_number(k) == IF k = "e1" THEN 1 ELSE 2
air_date(k) ==
    IF k = "e1" THEN 0 - 2 * (RecentEpisodeDays + 1) * Day
    ELSE RecentUntil + 1 - (RecentEpisodeDays + 1) * Day

Tasks == {"periodic", "manual", "startup"}

\* No function under test has been called yet.
NoCall == [op |-> "none"]

\* show_title not in tv_buffer
NoBuffer == [episodes |-> <<>>, is_first_show |-> FALSE]

None == -1
NoFile == -1
Corrupt == -2
NoChannel == "none"

\* No library query has run yet.
NoCutoff == -100

\* plex_discord_bot.py: the movies its library can come to hold, and the two
\* callers of check_for_new_media, the tasks.loop and the `!checkplex`
\* command.
LegacyMovies == {"m1", "m2"}
LegacyRuns == {"loop", "command"}

\* A caller that is not inside check_for_new_media.
NoRun == [pc |-> "idle", recent_movies |-> <<>>, i |-> 0]

VARIABLES
    now,              \* the wall clock
    addedAt,          \* library: item -> addedAt, 0 while the item is absent
    lastCheckFile,    \* data/last_check_time.txt: NoFile, Corrupt or a time
    startupFlag,      \* data/startup_completed.txt exists
    run,              \* number of times the process has been started
    faults,           \* failures of the environment so far
    ready,            \* bot.is_ready()
    plex,             \* plex_monitor.plex is set
    processed_media,  \* self.processed_media
    last_check_time,  \* self.last_check_time (None or a time)
    pc,               \* position of each task
    new_items,        \* _check_for_new_media: new_items, <<key, channel>>
    idx,              \* _check_for_new_media: position of the send loop
    current_check_time, \* _check_for_new_media: current_check_time
    attempts,         \* channel.send calls made for the current event
    srcFailed,        \* a library query of the scan yielded nothing by failure
    sentRun,          \* messages delivered per key since the process started
    skipped,          \* keys classified as needing no notification, this run
    gaveUp,           \* send attempts made for the last event given up, this run
    owed,             \* keys delivered by a scan that a restart cut short
    webhooks,         \* keys whose library.new webhook has been handled
    result,           \* the last call of a function under test, with its inputs
    tv_buffer,        \* plex_discord_bot.py: tv_buffer of the one show
    processed_movies, \* plex_discord_bot.py: processed_movies
    flushed,          \* plex_discord_bot.py: the last show message sent, if any
    unsent,           \* plex_discord_bot.py: the entry whose send raised in the last run
    movie_added,      \* plex_discord_bot.py: movie library, movie -> addedAt, 0 while absent
    legacy_run,       \* plex_discord_bot.py: the runs of check_for_new_media
    movie_sent,       \* plex_discord_bot.py: movie messages delivered per key
    send_failed,      \* plex_discord_bot.py: movies whose send has raised
    first_cutoff      \* the cutoff of the first library query of the process

botVars == <<now, addedAt, lastCheckFile, startupFlag, run, faults, ready, plex,
             processed_media, last_check_time, pc, new_items, idx,
             current_check_time, attempts, srcFailed, sentRun,
             skipped, gaveUp, owed>>

\* State outside PlexDiscordBot's polling: the webhook server, the functions
\* checked on their own, and the single-file bot plex_discord_bot.py.
legacyTvVars == <<tv_buffer, flushed, unsent>>

legacyMovieVars == <<movie_added, legacy_run, movie_sent, send_failed>>

auxVars == <<first_cutoff, webhooks, result, processed_movies, legacyTvVars,
             legacyMovieVars>>

vars == <<botVars, auxVars>>

envVars == <<now, addedAt>>
obsVars == <<sentRun, skipped, gaveUp, owed>>
\* ------------------------------------------------------------ PlexMonitor
\* library.search(sort="addedAt:desc"): the items present, newest first.
RECURSIVE SortedByAddedAtDesc(_, _)
SortedByAddedAtDesc(S, lib) ==
    IF S = {} THEN <<>>
    ELSE LET m == CHOOSE x \in S : \A y \in S : lib[y] <= lib[x]
         IN  <<m>> \o SortedByAddedAtDesc(S \ {m}, lib)

\* if since_datetime: cutoff_date = since_datetime
\* else: cutoff_date = datetime.now() - timedelta(days=days)
CutoffDate(since, days, clock) ==
    IF since # None THEN since ELSE clock - days * Day

\* IsNewer that also takes an item added exactly at the cutoff.
IsNewerOrEqual(added, cutoff) == added >= cutoff

\* The comparison of the walk over the sorted result.
IsNewer(added, cutoff) == added > cutoff

\* The walk over the sorted result: take while newer, break at the first older.
RECURSIVE TakeNewer(_, _, _)
TakeNewer(seq, lib, cutoff) ==
    IF seq = <<>> THEN <<>>
    ELSE IF IsNewer(lib[Head(seq)], cutoff)
         THEN <<Head(seq)>> \o TakeNewer(Tail(seq), lib, cutoff)
         ELSE <<>>

RecentlyAdded(kind, lib, since, days, clock, connected, libOK) ==
    IF ~connected THEN <<>>
    ELSE IF ~libOK THEN <<>>
    ELSE TakeNewer(SortedByAddedAtDesc({k \in kind : lib[k] # 0}, lib), lib,
                   CutoffDate(since, days, clock))

get_recently_added_movies(lib, since, days, clock, connected, libOK) ==
    RecentlyAdded(Movies, lib, since, days, clock, connected, libOK)

get_recently_added_episodes(lib, since, days, clock, connected, libOK) ==
    RecentlyAdded(Episodes, lib, since, days, clock, connected, libOK)

\* ------------------------------------------------------ PlexMonitor.connect
\* What PlexServer(...) does in one attempt: it returns, or raises
\* Unauthorized, a connection error or timeout, or another exception.
ConnectOutcomes == {"ok", "unauthorized", "connection_error", "other_error"}

ConnectImpls == {"package", "legacy"}

\* The branch of the try that an attempt takes.  plex_monitor.py retries
\* after every exception but Unauthorized; plex_discord_bot.py retries after
\* ConnectionError and TimeoutError and returns False after any other.
AfterAttempt(impl, outcome) ==
    CASE outcome = "ok" -> "return_true"
      [] outcome = "unauthorized" -> "return_false"
      [] outcome = "connection_error" -> "retry"
      [] OTHER -> IF impl = "package" THEN "retry" ELSE "return_false"

\* NextAttempt that does not count the attempt.
SameAttempt(n) == n

\* for attempt in range(self.connect_retry); retry_count += 1
NextAttempt(n) == n + 1

\* -------------------------------------------------------- checkpoint files
load_last_check_time(file) ==
    IF file = NoFile THEN None
    ELSE IF file = Corrupt THEN None
    ELSE file

\* outcome "ok": the timestamp is written; "open_fails": open() raises and
\* the file is as before; "write_fails": open(.., "w") truncated the file
\* and the write raised, which leaves a file that no longer parses.
SaveOutcomes == {"ok", "open_fails", "write_fails"}
save_last_check_time(timestamp, file, outcome) ==
    CASE outcome = "ok" -> timestamp
      [] outcome = "open_fails" -> file
      [] OTHER -> Corrupt
\* The announced-set file, data_file: "absent"; "unreadable", open() or
\* read() raises IOError; "bad_json", the text is no JSON document (an
\* interrupted write leaves one); "bad_bytes", the bytes are no text in the
\* file encoding; "not_a_list", a JSON document that set() does not take
\* (null, a number, a list of lists); or "array", a JSON array of keys.
BrokenKinds == {"unreadable", "bad_json", "bad_bytes", "not_a_list"}

DataFile(kind, keys) == [kind |-> kind, keys |-> keys]

RECURSIVE Arrangements(_)
Arrangements(S) ==
    IF S = {} THEN {<<>>}
    ELSE UNION {{<<x>> \o a : a \in Arrangements(S \ {x})} : x \in S}

DataFiles ==
    {DataFile(kind, <<>>) : kind \in {"absent"} \cup BrokenKinds}
        \cup {DataFile("array", a) : a \in UNION {Arrangements(S) : S \in SUBSET Items}}

\* The exception that reading the file raises.
LoadError(file) ==
    CASE file.kind = "unreadable" -> "IOError"
      [] file.kind = "bad_json" -> "JSONDecodeError"
      [] file.kind = "bad_bytes" -> "UnicodeDecodeError"
      [] file.kind = "not_a_list" -> "TypeError"
      [] OTHER -> "none"

\* except (json.JSONDecodeError, IOError) of load_processed_media;
\* except Exception of load_processed_movies (plex_discord_bot.py).
LoadCatches(impl) ==
    IF impl = "media" THEN {"JSONDecodeError", "IOError"}
    ELSE {"JSONDecodeError", "IOError", "UnicodeDecodeError", "TypeError"}

\* Elements that leaves out the last entry of the array.
ElementsButLast(seq) == {seq[i] : i \in 1..(Len(seq) - 1)}

\* set(json.load(f)) of a JSON array
Elements(seq) == {seq[i] : i \in 1..Len(seq)}

\* load_processed_media (impl "media") and load_processed_movies ("movies")
load_processed_media(impl, file) ==
    IF file.kind = "absent" THEN [raised |-> FALSE, value |-> {}]
    ELSE IF file.kind \in BrokenKinds
    THEN [raised |-> LoadError(file) \notin LoadCatches(impl), value |-> {}]
    ELSE [raised |-> FALSE, value |-> Elements(file.keys)]

\* save_processed_media / save_processed_movies: json.dump(list(media), f).
\* listing: list(media), the keys in the order the set yields them.  An
\* IOError (the only error a list of strings can meet) is caught and logged.
save_processed_media(listing, file, outcome) ==
    [raised |-> FALSE,
     file |-> CASE outcome = "ok" -> DataFile("array", listing)
                [] outcome = "open_fails" -> file
                [] OTHER -> DataFile("bad_json", <<>>)]

\* ---------------------------------------------------------- classification
\* An air_date string that datetime.fromisoformat does not parse.
BadAirDate == -100001

\* is_first_episode = season_number == 1 and episode_number == 1
IsFirstEpisode(season, episode) == season = 1 /\ episode = 1

is_first_episode(k) == IsFirstEpisode(season_number(k), episode_number(k))

\* RecentlyAired with a strict comparison of the days.
RecentlyAiredStrict(air, clock, days) ==
    /\ air \notin {NoAirDate, BadAirDate}
    /\ ((clock - air) \div Day) < days

\* (datetime.now() - air_date).days <= self.recent_episode_days; False when
\* the episode has no air date or the date does not parse.  timedelta.days
\* is the floor of the difference in days.
RecentlyAired(air, clock, days) ==
    /\ air \notin {NoAirDate, BadAirDate}
    /\ ((clock - air) \div Day) <= days

recently_aired(k, clock) == RecentlyAired(air_date(k), clock, RecentEpisodeDays)

\* IsNew without the membership test.
IsNewAlways(k, pm) == TRUE

\* movie["key"] not in self.processed_media
IsNew(k, pm) == k \notin pm

\* Route that does not look at the two notification settings.
RouteUngated(nns, nre, first, recent, nsCh, reCh) ==
    IF first THEN nsCh
    ELSE IF recent THEN reCh
    ELSE ""

\* Route with the recent-episode branch tested first.
RouteRecentFirst(nns, nre, first, recent, nsCh, reCh) ==
    IF nre /\ recent THEN reCh
    ELSE IF nns /\ first THEN nsCh
    ELSE ""

\* if self.notify_new_shows and is_first_episode: new_shows_channel
\* elif self.notify_recent_episodes and recently_aired: recent_episodes_channel
\* else should_add stays False ("").
Route(nns, nre, first, recent, nsCh, reCh) ==
    IF nns /\ first THEN nsCh
    ELSE IF nre /\ recent THEN reCh
    ELSE ""

\* The channel an episode is queued for, "" when it is not queued
\* (should_add stays False).  nsCh and reCh are what get_channel returned
\* for the new-shows and the recent-episodes channel; acc.nns and acc.nre
\* are self.notify_new_shows and self.notify_recent_episodes.
TargetChannel(acc, k, clock, nsCh, reCh) ==
    Route(acc.nns, acc.nre, is_first_episode(k),
          recently_aired(k, clock), nsCh, reCh)

\* QueueItem that leaves an episode it does not queue out of processed_media.
QueueItemUnmarked(acc, k, clock, nsCh, reCh) ==
    IF ~IsNew(k, acc.pm) THEN acc
    ELSE IF k \in Movies
    THEN [acc EXCEPT !.q = Append(@, <<k, "movie">>), !.pm = @ \cup {k}]
    ELSE LET ch == TargetChannel(acc, k, clock, nsCh, reCh)
         IN  IF ch = ""
             THEN [acc EXCEPT !.skip = @ \cup {k}]
             ELSE [acc EXCEPT !.q = Append(@, <<k, ch>>), !.pm = @ \cup {k}]

\* QueueItem that queues an item without adding its key to processed_media
\* (the key is left to be recorded after the send).
QueueItemRecordLater(acc, k, clock, nsCh, reCh) ==
    IF ~IsNew(k, acc.pm) THEN acc
    ELSE IF k \in Movies
    THEN [acc EXCEPT !.q = Append(@, <<k, "movie">>)]
    ELSE LET ch == TargetChannel(acc, k, clock, nsCh, reCh)
         IN  IF ch = ""
             THEN [acc EXCEPT !.skip = @ \cup {k}, !.pm = @ \cup {k}]
             ELSE [acc EXCEPT !.q = Append(@, <<k, ch>>)]

\* One pass of the two queueing loops over an item of the query results.
\* acc = [q: new_items, pm: processed_media, skip: skipped, nns, nre].
QueueItem(acc, k, clock, nsCh, reCh) ==
    IF ~IsNew(k, acc.pm) THEN acc
    ELSE IF k \in Movies
    THEN [acc EXCEPT !.q = Append(@, <<k, "movie">>), !.pm = @ \cup {k}]
    ELSE LET ch == TargetChannel(acc, k, clock, nsCh, reCh)
         IN  IF ch = ""
             THEN [acc EXCEPT !.skip = @ \cup {k}, !.pm = @ \cup {k}]
             ELSE [acc EXCEPT !.q = Append(@, <<k, ch>>), !.pm = @ \cup {k}]

RECURSIVE QueueAll(_, _, _, _, _)
QueueAll(acc, seq, clock, nsCh, reCh) ==
    IF seq = <<>> THEN acc
    ELSE QueueAll(QueueItem(acc, Head(seq), clock, nsCh, reCh), Tail(seq),
                  clock, nsCh, reCh)

\* The two library queries and the two queueing loops of a scan: the movies
\* first, then the episodes.  lct: self.last_check_time; pm, skip: the
\* announced set and the keys found to need no notification so far; nm,
\* nns, nre: self.notify_movies, notify_new_shows, notify_recent_episodes.
ScanQueueWith(nm, nns, nre, lib, lct, clock, connected, movieLibOK, tvLibOK, pm, skip, nsCh, reCh) ==
    LET movies ==
            IF nm
            THEN get_recently_added_movies(lib, lct, LookbackDays, clock,
                                           connected, movieLibOK)
            ELSE <<>>
        episodes ==
            IF nns \/ nre
            THEN get_recently_added_episodes(lib, lct, LookbackDays, clock,
                                             connected, tvLibOK)
            ELSE <<>>
    IN  QueueAll([q |-> <<>>, pm |-> pm, skip |-> skip, nns |-> nns, nre |-> nre],
                 movies \o episodes, clock, nsCh, reCh)

\* The scan of the bot as it is configured by default.
ScanQueue(lib, lct, clock, connected, movieLibOK, tvLibOK, pm, skip, nsCh, reCh) ==
    ScanQueueWith(notify_movies, notify_new_shows, notify_recent_episodes,
                  lib, lct, clock, connected, movieLibOK, tvLibOK, pm, skip,
                  nsCh, reCh)

\* ------------------------------------------------------------------ tasks
\* A task inside the synchronous part of a scan holds the event loop: no
\* other coroutine runs until it reaches an await or returns.
NoSyncRunning == \A u \in Tasks : pc[u] \notin {"query", "finalize"}

Scanning(t) == pc[t] \in {"query", "await_send", "finalize"}

\* Where a task goes when _check_for_new_media returns.
AfterReturn(t) == "idle"

\* Where a task goes when _check_for_new_media raises: tasks.loop ends the
\* periodic task on an unhandled exception; on_ready catches and reports;
\* the command framework reports the error of `!check`.
AfterRaise(t) == IF t = "periodic" THEN "stopped" ELSE "idle"

\* OnSendError with a bounded retry of the send.
OnSendErrorRetry(n) == IF n < 3 THEN "retry" ELSE "raise"

\* What the send loop does with an exception of channel.send after n
\* attempts: there is no handler around the await, the exception leaves the
\* scan.
OnSendError(n) == "raise"

\* AfterSaveError with the IOError propagating out of the scan.
AfterSaveErrorRaise(t) == AfterRaise(t)

\* Where a task goes when the write of the check time fails:
\* save_last_check_time logs the IOError and returns, the scan goes on.
AfterSaveError(t) == AfterReturn(t)

\* signal_handler (SIGINT, SIGTERM): sys.exit(0) at once.  Whether a scan is
\* between a send and its write of the check time is not looked at.
ExitOnSignal(inFlight) == TRUE

\* Keys of the events of task t's scan that reached their channel.
Delivered(t) ==
    {new_items[t][j][1] : j \in {i \in 1..Len(new_items[t]) : i < idx[t]}}

\* ScanHead without the test of the movie channel.
ScanHeadAnyChannel(isReady, connected, connectOK, movie_channel) ==
    IF ~isReady THEN "not_ready"
    ELSE IF ~connected /\ ~connectOK THEN "not_connected"
    ELSE "proceed"

\* The tests at the head of _check_for_new_media, each with a return:
\* if not self.bot.is_ready(); if not self.plex_monitor.plex and not
\* self.plex_monitor.connect(); if not movie_channel.
ScanHead(isReady, connected, connectOK, movie_channel) ==
    IF ~isReady THEN "not_ready"
    ELSE IF ~connected /\ ~connectOK THEN "not_connected"
    ELSE IF ~movie_channel THEN "no_movie_channel"
    ELSE "proceed"

\* A failure of the environment costs one unit of the failure budget.
Cost(ok) == IF ok THEN 0 ELSE 1
MayFail == IF faults < MaxFaults THEN BOOLEAN ELSE {TRUE}

\* The state after construction, but for the failures counted so far.
InitButFaults ==
    /\ now = 0
    /\ addedAt = [k \in Items |-> 0]
    /\ lastCheckFile = NoFile
    /\ startupFlag = FALSE
    /\ run = 1
    /\ plex \in BOOLEAN
    /\ ready = FALSE
    /\ processed_media = {}
    /\ last_check_time = load_last_check_time(NoFile)
    /\ pc = [t \in Tasks |-> "idle"]
    /\ new_items = [t \in Tasks |-> <<>>]
    /\ idx = [t \in Tasks |-> 0]
    /\ current_check_time = [t \in Tasks |-> None]
    /\ attempts = [t \in Tasks |-> 0]
    /\ srcFailed = [t \in Tasks |-> FALSE]
    /\ sentRun = [k \in Items |-> 0]
    /\ skipped = {}
    /\ gaveUp = 0
    /\ owed = {}
    /\ webhooks = {}
    /\ result = NoCall
    /\ tv_buffer = NoBuffer
    /\ processed_movies = {}
    /\ flushed = <<>>
    /\ unsent = NoBuffer
    /\ movie_added = [m \in LegacyMovies |-> 0]
    /\ legacy_run = [r \in LegacyRuns |-> NoRun]
    /\ movie_sent = [m \in LegacyMovies |-> 0]
    /\ send_failed = {}
    /\ first_cutoff = NoCutoff

Init ==
    /\ InitButFaults
    /\ faults = Cost(plex)

\* The local state of task t: its position and the locals of the scan it runs.
Locals(t, p, q, i, c, a, f) ==
    /\ pc' = [pc EXCEPT ![t] = p]
    /\ new_items' = [new_items EXCEPT ![t] = q]
    /\ idx' = [idx EXCEPT ![t] = i]
    /\ current_check_time' = [current_check_time EXCEPT ![t] = c]
    /\ attempts' = [attempts EXCEPT ![t] = a]
    /\ srcFailed' = [srcFailed EXCEPT ![t] = f]

Leave(t, p) == Locals(t, p, <<>>, 0, None, 0, FALSE)

taskVars == <<pc, new_items, idx, current_check_time, attempts, srcFailed>>

\* for item_data in new_items: ... await channel.send(embed=embed)
\* at position i of the queue q: past the end the loop is over and the scan
\* goes on to save the check time; an event whose channel is None raises
\* at once (None has no send); otherwise the send is awaited.
EnterLoop(t, q, i, c, f) ==
    IF i > Len(q) THEN Locals(t, "finalize", q, i, c, 0, f)
    ELSE IF q[i][2] = NoChannel THEN Leave(t, AfterRaise(t))
    ELSE Locals(t, "await_send", q, i, c, 1, f)

\* ----------------------------------------------------------- environment
\* An item is added to the library; its addedAt is the instant of adding.
AddItem(k) ==
    /\ UNCHANGED auxVars
    /\ addedAt[k] = 0
    /\ now < MaxTime
    /\ now' = now + 1
    /\ addedAt' = [addedAt EXCEPT ![k] = now + 1]
    /\ UNCHANGED <<lastCheckFile, startupFlag, run, faults, ready, plex,
                   processed_media, last_check_time>>
    /\ UNCHANGED taskVars
    /\ UNCHANGED obsVars

Tick ==
    /\ UNCHANGED auxVars
    /\ now < MaxTime
    /\ now' = now + 1
    /\ UNCHANGED <<addedAt, lastCheckFile, startupFlag, run, faults, ready, plex,
                   processed_media, last_check_time>>
    /\ UNCHANGED taskVars
    /\ UNCHANGED obsVars

\* The process stops at any point (crash, signal, end of run()) and is
\* started again: PlexMonitor.__init__ and PlexDiscordBot.__init__.
Restart ==
    /\ UNCHANGED auxVars
    /\ run < MaxRuns
    /\ ExitOnSignal(\E t \in Tasks : Scanning(t))
    /\ run' = run + 1
    /\ ready' = FALSE
    /\ \E connectOK \in MayFail :
          /\ plex' = connectOK
          /\ faults' = faults + Cost(connectOK)
    /\ processed_media' = {}
    /\ last_check_time' = load_last_check_time(lastCheckFile)
    /\ pc' = [t \in Tasks |-> "idle"]
    /\ new_items' = [t \in Tasks |-> <<>>]
    /\ idx' = [t \in Tasks |-> 0]
    /\ current_check_time' = [t \in Tasks |-> None]
    /\ attempts' = [t \in Tasks |-> 0]
    /\ srcFailed' = [t \in Tasks |-> FALSE]
    /\ sentRun' = [k \in Items |-> 0]
    /\ skipped' = {}
    /\ gaveUp' = 0
    /\ owed' = UNION {Delivered(t) : t \in Tasks}
    /\ UNCHANGED <<now, addedAt, lastCheckFile, startupFlag>>

\* ------------------------------------------------- _check_for_new_media
\* The head of the scan up to the channel lookup: the readiness test, the
\* reconnect to Plex, current_check_time and the movie channel.  It runs
\* without an await, in the step that resumes the calling coroutine.
\* spent: what the caller's step has used of the failure budget.
\* connectOK: what plex_monitor.connect() returns when it is called;
\* movie_channel: get_channel(self.movie_channel_id) found the channel.
ScanBeginWith(t, spent, connectOK, movie_channel) ==
    LET reconnect == ready /\ ~plex
        lookup == ready /\ (plex \/ connectOK)
        cost == spent + (IF reconnect THEN Cost(connectOK) ELSE 0)
                      + (IF lookup THEN Cost(movie_channel) ELSE 0)
    IN  /\ reconnect \/ connectOK
        /\ lookup \/ movie_channel
        /\ faults + cost <= MaxFaults
        /\ faults' = faults + cost
        /\ plex' = IF reconnect THEN connectOK ELSE plex
        /\ IF ScanHead(ready, plex, connectOK, movie_channel) = "proceed"
           THEN Locals(t, "query", <<>>, 0, now, 0, FALSE)
           ELSE Leave(t, AfterReturn(t))

ScanBegin(t, spent) ==
    \E connectOK \in BOOLEAN, movie_channel \in BOOLEAN :
        ScanBeginWith(t, spent, connectOK, movie_channel)

\* --------------------------------------------------- gateway and triggers
\* The gateway reports ready and dispatches on_ready, which awaits
\* change_presence before it goes on.
OnReady ==
    /\ UNCHANGED auxVars
    /\ ~ready
    /\ NoSyncRunning
    /\ ready' = TRUE
    /\ IF pc["startup"] = "idle" THEN Leave("startup", "on_ready")
       ELSE UNCHANGED taskVars
    /\ UNCHANGED <<now, addedAt, lastCheckFile, startupFlag, run, faults, plex,
                   processed_media, last_check_time>>
    /\ UNCHANGED obsVars

\* on_ready after its awaits: the startup sequence runs when the flag file
\* is absent; the file is created (creation may fail), and with a debug
\* channel the welcome message is sent and the initial check follows.
StartupCheck ==
    /\ UNCHANGED auxVars
    /\ pc["startup"] = "on_ready"
    /\ NoSyncRunning
    /\ IF startupFlag
       THEN /\ Leave("startup", "idle")
            /\ UNCHANGED <<startupFlag, plex, faults>>
       ELSE \E created \in MayFail, debug_channel \in BOOLEAN :
               /\ startupFlag' = created
               /\ IF debug_channel
                  THEN ScanBegin("startup", Cost(created))
                  ELSE /\ faults + Cost(created) + 1 <= MaxFaults
                       /\ faults' = faults + Cost(created) + 1
                       /\ Leave("startup", "idle")
                       /\ UNCHANGED plex
    /\ UNCHANGED <<now, addedAt, lastCheckFile, run, ready,
                   processed_media, last_check_time>>
    /\ UNCHANGED obsVars

\* `!check` in a guild: after the await of ctx.send the check runs.  (Outside
\* a guild the command replies and returns.)
CheckCommand ==
    /\ UNCHANGED auxVars
    /\ pc["manual"] = "idle"
    /\ NoSyncRunning
    /\ ScanBegin("manual", 0)
    /\ UNCHANGED <<now, addedAt, lastCheckFile, startupFlag, run, ready,
                   processed_media, last_check_time>>
    /\ UNCHANGED obsVars

\* tasks.loop(seconds=check_interval): an iteration of check_media_task,
\* which awaits wait_until_ready() before the check.
CheckMediaTask ==
    /\ UNCHANGED auxVars
    /\ pc["periodic"] = "idle"
    /\ NoSyncRunning
    /\ ready
    /\ ScanBegin("periodic", 0)
    /\ UNCHANGED <<now, addedAt, lastCheckFile, startupFlag, run, ready,
                   processed_media, last_check_time>>
    /\ UNCHANGED obsVars

\* The two library queries and the two queueing loops, then the first send.
ScanQueryStep(t) ==
    /\ pc[t] = "query"
    /\ \E movieLibOK \in BOOLEAN, tvLibOK \in BOOLEAN,
          new_shows_channel \in {"new_shows", NoChannel},
          recent_episodes_channel \in {"recent", NoChannel} :
          LET failed == \/ notify_movies /\ ~movieLibOK
                        \/ (notify_new_shows \/ notify_recent_episodes) /\ ~tvLibOK
              acc == ScanQueue(addedAt, last_check_time, now, plex,
                               movieLibOK, tvLibOK, processed_media, skipped,
                               new_shows_channel, recent_episodes_channel)
              cost == Cost(movieLibOK) + Cost(tvLibOK)
                      + Cost(new_shows_channel # NoChannel)
                      + Cost(recent_episodes_channel # NoChannel)
          IN  /\ faults + cost <= MaxFaults
              /\ faults' = faults + cost
              /\ processed_media' = acc.pm
              /\ skipped' = acc.skip
              /\ EnterLoop(t, acc.q, 1, current_check_time[t], failed)
    /\ owed' = {}
    /\ UNCHANGED <<now, addedAt, lastCheckFile, startupFlag, run, ready, plex,
                   last_check_time, sentRun, gaveUp>>

ScanQuery(t) ==
    /\ UNCHANGED auxVars
    /\ ScanQueryStep(t)

\* The awaited channel.send returns: the message has reached the channel,
\* and the task goes on with the loop.
SendReturn(t) ==
    /\ UNCHANGED auxVars
    /\ pc[t] = "await_send"
    /\ NoSyncRunning
    /\ sentRun' = [sentRun EXCEPT ![new_items[t][idx[t]][1]] =
                       IF @ < 2 THEN @ + 1 ELSE @]
    /\ EnterLoop(t, new_items[t], idx[t] + 1, current_check_time[t], srcFailed[t])
    /\ UNCHANGED <<now, addedAt, lastCheckFile, startupFlag, run, faults, ready,
                   plex, processed_media, last_check_time, skipped, gaveUp, owed>>

\* The awaited channel.send raises.
SendRaise(t) ==
    /\ UNCHANGED auxVars
    /\ pc[t] = "await_send"
    /\ NoSyncRunning
    /\ faults < MaxFaults
    /\ faults' = faults + 1
    /\ IF OnSendError(attempts[t]) = "retry"
       THEN /\ Locals(t, "await_send", new_items[t], idx[t],
                      current_check_time[t], attempts[t] + 1, srcFailed[t])
            /\ UNCHANGED gaveUp
       ELSE /\ Leave(t, AfterRaise(t))
            /\ gaveUp' = attempts[t]
    /\ UNCHANGED <<now, addedAt, lastCheckFile, startupFlag, run, ready, plex,
                   processed_media, last_check_time, sentRun, skipped, owed>>

\* self.last_check_time = current_check_time
\* save_last_check_time(self.last_check_time, self.timestamp_file)
Finalize(t) ==
    /\ UNCHANGED auxVars
    /\ pc[t] = "finalize"
    /\ last_check_time' = current_check_time[t]
    /\ \E outcome \in SaveOutcomes :
          /\ faults + Cost(outcome = "ok") <= MaxFaults
          /\ faults' = faults + Cost(outcome = "ok")
          /\ lastCheckFile' = save_last_check_time(current_check_time[t],
                                                   lastCheckFile, outcome)
          /\ Leave(t, IF outcome = "ok" THEN AfterReturn(t) ELSE AfterSaveError(t))
    /\ UNCHANGED <<now, addedAt, startupFlag, run, ready, plex, processed_media>>
    /\ UNCHANGED obsVars

Next ==
    \/ \E k \in Items : AddItem(k)
    \/ Tick
    \/ Restart
    \/ OnReady
    \/ StartupCheck
    \/ CheckCommand
    \/ CheckMediaTask
    \/ \E t \in Tasks : ScanQuery(t)
    \/ \E t \in Tasks : SendReturn(t)
    \/ \E t \in Tasks : SendRaise(t)
    \/ \E t \in Tasks : Finalize(t)

Spec == Init /\ [][Next]_vars

\* --------------------------------------- the bot with every scan completing
\* The process runs once and no send raises, so that every scan that starts
\* runs to its end.  The periodic task and the `!check` command interleave
\* as in Spec; the startup check is left out (on_ready does not go on).
\* Time passes with nothing added, up to a day beyond MaxTime.
Wait ==
    /\ now < MaxTime + LookbackDays * Day
    /\ now' = now + 1
    /\ UNCHANGED <<addedAt, lastCheckFile, startupFlag, run, faults, ready, plex,
                   processed_media, last_check_time>>
    /\ UNCHANGED taskVars
    /\ UNCHANGED obsVars
    /\ UNCHANGED auxVars

\* ScanQuery, with the cutoff of the first query of the process noted.
SteadyScanQuery(t) ==
    /\ ScanQueryStep(t)
    /\ first_cutoff' = IF first_cutoff = NoCutoff
                        THEN CutoffDate(last_check_time, LookbackDays, now)
                        ELSE first_cutoff
    /\ UNCHANGED <<webhooks, result, processed_movies, legacyTvVars,
                   legacyMovieVars>>

NextSteady ==
    \/ \E k \in Items : AddItem(k)
    \/ Wait
    \/ OnReady
    \/ CheckCommand
    \/ CheckMediaTask
    \/ \E t \in {"periodic", "manual"} : SteadyScanQuery(t)
    \/ \E t \in {"periodic", "manual"} : SendReturn(t)
    \/ \E t \in {"periodic", "manual"} : Finalize(t)

SpecSteady == Init /\ [][NextSteady]_vars

\* -------------------------------------- the head of _check_for_new_media
\* The periodic task and the `!check` command as in Spec, with the inputs of
\* the last call of _check_for_new_media noted in result: the caller, what
\* is_ready() and plex_monitor.plex were, and what connect() and
\* get_channel gave.  A failed connection at construction is not counted
\* against the failure budget here, so that a reconnect can fail as well.
HeadCall(t, connectOK, movie_channel) ==
    [op |-> "head", t |-> t, ready |-> ready, connected |-> plex,
     connectOK |-> connectOK, movie_channel |-> movie_channel]

HeadCheckCommand ==
    /\ pc["manual"] = "idle"
    /\ NoSyncRunning
    /\ \E connectOK \in BOOLEAN, movie_channel \in BOOLEAN :
          /\ ScanBeginWith("manual", 0, connectOK, movie_channel)
          /\ result' = HeadCall("manual", connectOK, movie_channel)
    /\ UNCHANGED <<now, addedAt, lastCheckFile, startupFlag, run, ready,
                   processed_media, last_check_time>>
    /\ UNCHANGED obsVars
    /\ UNCHANGED <<first_cutoff, webhooks, processed_movies, legacyTvVars, legacyMovieVars>>

HeadCheckMediaTask ==
    /\ pc["periodic"] = "idle"
    /\ NoSyncRunning
    /\ ready
    /\ \E connectOK \in BOOLEAN, movie_channel \in BOOLEAN :
          /\ ScanBeginWith("periodic", 0, connectOK, movie_channel)
          /\ result' = HeadCall("periodic", connectOK, movie_channel)
    /\ UNCHANGED <<now, addedAt, lastCheckFile, startupFlag, run, ready,
                   processed_media, last_check_time>>
    /\ UNCHANGED obsVars
    /\ UNCHANGED <<first_cutoff, webhooks, processed_movies, legacyTvVars, legacyMovieVars>>

InitHead ==
    /\ InitButFaults
    /\ faults = 0

NextHead ==
    \/ \E k \in Items : AddItem(k)
    \/ Tick
    \/ OnReady
    \/ HeadCheckCommand
    \/ HeadCheckMediaTask
    \/ \E t \in {"periodic", "manual"} : ScanQuery(t)
    \/ \E t \in {"periodic", "manual"} : SendReturn(t)
    \/ \E t \in {"periodic", "manual"} : Finalize(t)

SpecHead == InitHead /\ [][NextHead]_vars

\* ------------------------------------------- PlexMonitor queries on their own
\* The inputs of a query: a library listing (addedAt per item, 0 for an item
\* the library does not hold), since_datetime, days and the clock.
QueryDays == {LookbackDays, LookbackDays + 1}
QueryTimes == 0..MaxTime

\* OnSearchError with the exception leaving the query.
OnSearchErrorRaise == "raise"

\* What a query does with an exception of library.search: it is logged and
\* the empty list is returned.
OnSearchError == "return_empty"

\* A call with its inputs and what came of it.  connected: self.plex is
\* set; found: get_library returned the section; searchOK: library.search
\* returned.
QueryCall(op, lib, since, days, clock, connected, found, searchOK, out) ==
    [op |-> op, lib |-> lib, since |-> since, days |-> days, clock |-> clock,
     connected |-> connected, found |-> found, searchOK |-> searchOK,
     ok |-> connected /\ found /\ searchOK,
     raised |-> connected /\ found /\ ~searchOK /\ OnSearchError = "raise",
     out |-> out]

QueryMovies ==
    /\ result = NoCall
    /\ \E lib \in [Items -> QueryTimes], since \in {None} \cup QueryTimes,
          days \in QueryDays, clock \in QueryTimes,
          connected \in BOOLEAN, found \in BOOLEAN, searchOK \in BOOLEAN :
          result' = QueryCall("movies", lib, since, days, clock,
                        connected, found, searchOK,
                        get_recently_added_movies(lib, since, days, clock,
                                                  connected, found /\ searchOK))
    /\ UNCHANGED botVars
    /\ UNCHANGED <<first_cutoff, webhooks, processed_movies, legacyTvVars, legacyMovieVars>>

QueryEpisodes ==
    /\ result = NoCall
    /\ \E lib \in [Items -> QueryTimes], since \in {None} \cup QueryTimes,
          days \in QueryDays, clock \in QueryTimes,
          connected \in BOOLEAN, found \in BOOLEAN, searchOK \in BOOLEAN :
          result' = QueryCall("episodes", lib, since, days, clock,
                        connected, found, searchOK,
                        get_recently_added_episodes(lib, since, days, clock,
                                                    connected, found /\ searchOK))
    /\ UNCHANGED botVars
    /\ UNCHANGED <<first_cutoff, webhooks, processed_movies, legacyTvVars, legacyMovieVars>>

NextQuery == QueryMovies \/ QueryEpisodes

SpecQuery == Init /\ [][NextQuery]_vars

\* ------------------------------------------ the classification on its own
\* Ages of an air date in clock ticks: in the future, today, the last tick of
\* day RecentEpisodeDays, the first tick of the day after, long ago.
ClassifyAges ==
    {0 - 1, 0, RecentEpisodeDays * Day + Day - 1, (RecentEpisodeDays + 1) * Day,
     400 * Day}

\* The classification of one new episode, for every setting of the two
\* notification flags.
Classify ==
    /\ result = NoCall
    /\ \E season \in 1..2, episode \in 1..2, clock \in QueryTimes,
          nns \in BOOLEAN, nre \in BOOLEAN,
          air \in {NoAirDate, BadAirDate} \cup {c - a : c \in QueryTimes, a \in ClassifyAges} :
          result' = [op |-> "classify", season |-> season, episode |-> episode,
                     air |-> air, clock |-> clock, nns |-> nns, nre |-> nre,
                     ch |-> Route(nns, nre, IsFirstEpisode(season, episode),
                                  RecentlyAired(air, clock, RecentEpisodeDays),
                                  "new_shows", "recent")]
    /\ UNCHANGED botVars
    /\ UNCHANGED <<first_cutoff, webhooks, processed_movies, legacyTvVars, legacyMovieVars>>

NextClassify == Classify

SpecClassify == Init /\ [][NextClassify]_vars

\* ------------------------------------------------- PlexMonitor.connect alone
\* connect() is called: attempt is the loop variable, log the outcomes of
\* the calls of PlexServer so far, ret the return value, "running" until
\* the call returns.
ConnectCall ==
    /\ result = NoCall
    /\ \E impl \in ConnectImpls, connect_retry \in 0..ConnectRetry :
          result' = [op |-> "connect", impl |-> impl,
                     connect_retry |-> connect_retry, attempt |-> 0,
                     log |-> <<>>, ret |-> "running"]
    /\ UNCHANGED botVars
    /\ UNCHANGED <<first_cutoff, webhooks, processed_movies, legacyTvVars, legacyMovieVars>>

\* One pass of the loop: the loop test, then an attempt and its branch.
ConnectAttempt ==
    /\ result.op = "connect"
    /\ result.ret = "running"
    /\ Len(result.log) <= ConnectRetry
    /\ IF result.attempt >= result.connect_retry
       THEN result' = [result EXCEPT !.ret = "False"]
       ELSE \E outcome \in ConnectOutcomes :
               LET branch == AfterAttempt(result.impl, outcome)
               IN  result' = [result EXCEPT
                       !.log = Append(@, outcome),
                       !.attempt = IF branch = "retry" THEN NextAttempt(@) ELSE @,
                       !.ret = CASE branch = "return_true" -> "True"
                                 [] branch = "return_false" -> "False"
                                 [] OTHER -> @]
    /\ UNCHANGED botVars
    /\ UNCHANGED <<first_cutoff, webhooks, processed_movies, legacyTvVars, legacyMovieVars>>

NextConnect == ConnectCall \/ ConnectAttempt

\* connect() runs on: nothing suspends it but time.sleep between attempts.
SpecConnect == Init /\ [][NextConnect]_vars /\ WF_vars(NextConnect)

\* -------------------------------------------- the announced-set file alone
StorageImpls == {"media", "movies"}

\* save followed by load on the same file
SaveThenLoad ==
    /\ result = NoCall
    /\ \E impl \in StorageImpls, media \in SUBSET Items,
          before \in {DataFile("absent", <<>>), DataFile("bad_json", <<>>)},
          outcome \in SaveOutcomes :
          \E listing \in Arrangements(media) :
              LET saved == save_processed_media(listing, before, outcome)
                  loaded == load_processed_media(impl, saved.file)
              IN  result' = [op |-> "save_load", impl |-> impl, media |-> media,
                             listing |-> listing, outcome |-> outcome,
                             raised |-> saved.raised \/ loaded.raised,
                             value |-> loaded.value]
    /\ UNCHANGED botVars
    /\ UNCHANGED <<first_cutoff, webhooks, processed_movies, legacyTvVars, legacyMovieVars>>

\* load on a file in any condition
LoadFile ==
    /\ result = NoCall
    /\ \E impl \in StorageImpls, file \in DataFiles :
          LET loaded == load_processed_media(impl, file)
          IN  result' = [op |-> "load", impl |-> impl, file |-> file,
                         raised |-> loaded.raised, value |-> loaded.value]
    /\ UNCHANGED botVars
    /\ UNCHANGED <<first_cutoff, webhooks, processed_movies, legacyTvVars, legacyMovieVars>>

NextStorage == SaveThenLoad \/ LoadFile

SpecStorage == Init /\ [][NextStorage]_vars

\* ------------------------------------- one scan from an empty checkpoint
\* _check_for_new_media with no last_check_time and an empty announced set,
\* over a library listing, with every send returning: q is the sequence of
\* the messages sent, pm the announced set afterwards.
ScanOnce ==
    /\ result = NoCall
    /\ \E lib \in [Items -> QueryTimes], clock \in QueryTimes,
          new_shows_channel \in {"new_shows", NoChannel},
          recent_episodes_channel \in {"recent", NoChannel} :
          LET acc == ScanQueue(lib, None, clock, TRUE, TRUE, TRUE, {}, {},
                               new_shows_channel, recent_episodes_channel)
          IN  result' = [op |-> "scan", lib |-> lib, clock |-> clock,
                         resolved |-> /\ new_shows_channel # NoChannel
                                      /\ recent_episodes_channel # NoChannel,
                         q |-> acc.q, pm |-> acc.pm]
    /\ UNCHANGED botVars
    /\ UNCHANGED <<first_cutoff, webhooks, processed_movies, legacyTvVars, legacyMovieVars>>

NextScanOnce == ScanOnce

SpecScanOnce == Init /\ [][NextScanOnce]_vars

\* ----------------------------------- one scan under every configuration
\* _check_for_new_media past its head, for every setting of notify_movies,
\* notify_new_shows and notify_recent_episodes, over a library listing and
\* an announced set, with the three channels resolved and every send
\* returning: q is the sequence of the messages sent with their channels.
ScanWithFlags ==
    /\ result = NoCall
    /\ \E nm \in BOOLEAN, nns \in BOOLEAN, nre \in BOOLEAN,
          lib \in [Items -> QueryTimes], clock \in QueryTimes,
          lct \in {None, 0}, pm \in {{}, {"e1"}} :
          LET acc == ScanQueueWith(nm, nns, nre, lib, lct, clock, TRUE, TRUE,
                                   TRUE, pm, {}, "new_shows", "recent")
          IN  result' = [op |-> "flags", nm |-> nm, nns |-> nns, nre |-> nre,
                         lib |-> lib, clock |-> clock, before |-> pm,
                         q |-> acc.q, pm |-> acc.pm]
    /\ UNCHANGED botVars
    /\ UNCHANGED <<first_cutoff, webhooks, processed_movies, legacyTvVars, legacyMovieVars>>

NextFlags == ScanWithFlags

SpecFlags == Init /\ [][NextFlags]_vars

\* ------------------------------------- plex_discord_bot.py: the show buffer
\* The episodes of the show that plex_discord_bot.py can come to see: those
\* of the catalog and e3, season 2 episode 2.
LegacyEpisodes == Episodes \cup {"e3"}

\* What get_recently_added_episodes can return: the new episodes of the
\* show in any order of discovery.
DiscoverySeqs ==
    {q \in UNION {[1..n -> LegacyEpisodes] : n \in 0..Cardinality(LegacyEpisodes)} :
        \A i \in 1..Len(q), j \in 1..Len(q) : i # j => q[i] # q[j]}

\* PlexMonitor.is_first_episode_of_show: False when the lookup fails, False
\* when an episode of the show is in the processed set, else True.
is_first_episode_of_show(processed, lookupOK) ==
    lookupOK /\ processed \cap LegacyEpisodes = {}

\* One pass of the loop over recent_episodes.  acc = [buf: the entry of the
\* show in tv_buffer, pm: processed_movies, touched: the show is in
\* shows_to_process].  recent: the episodes with is_recent_episode.
BufferEpisode(acc, k, recent, lookupOK) ==
    IF k \in acc.pm THEN acc
    ELSE LET is_recent_episode == k \in recent
             is_first_show_episode == is_first_episode_of_show(acc.pm, lookupOK)
         IN  IF is_recent_episode \/ is_first_show_episode
             THEN [buf |-> IF acc.buf # NoBuffer
                           THEN [acc.buf EXCEPT !.episodes = Append(@, k)]
                           ELSE [episodes |-> <<k>>,
                                 is_first_show |-> is_first_show_episode],
                   pm |-> acc.pm \cup {k},
                   touched |-> TRUE]
             ELSE [acc EXCEPT !.pm = @ \cup {k}]

RECURSIVE BufferAll(_, _, _, _)
BufferAll(acc, seq, recent, lookupOK) ==
    IF seq = <<>> THEN acc
    ELSE BufferAll(BufferEpisode(acc, Head(seq), recent, lookupOK), Tail(seq),
                   recent, lookupOK)

\* The embed of a show: the episode list in the order of the buffer, and the
\* "NEW SHOW" title when is_first_show is set.
ShowMessage(buf) == [episodes |-> buf.episodes, new_show |-> buf.is_first_show]

\* save_tv_buffer converts last_updated to a string and hands the rest to
\* json.dump as it is.  An episode with is_recent_episode has an air_date
\* that compares with a date, and json.dump raises TypeError on it: the
\* file, already opened for writing, is left with the text written so far.
\* Of the other episodes some have an air_date and some have none, and the
\* write itself may fail: writable says whether such a buffer gets written.
Serializable(buf, recent, writable) ==
    /\ \A i \in 1..Len(buf.episodes) : buf.episodes[i] \notin recent
    /\ writable

\* load_tv_buffer of the next run: the entry as saved, and the empty buffer
\* when the file does not parse.
load_tv_buffer(buf, saved) == IF saved THEN buf ELSE NoBuffer

\* try: await channel.send(embed=embed); del tv_buffer[show_title]
\* except Exception: the error is logged and the entry stays.
AfterShowSend(buf, sendOK) == IF sendOK THEN NoBuffer ELSE buf

\* The TV part of check_for_new_media: the buffer is loaded, the new
\* episodes are buffered, the show is sent when it was touched in this run
\* or its buffer has aged, a sent show leaves the buffer, and the buffer is
\* saved.
\* recent_episodes: the result of the query; aged: time_since_update >=
\* tv_buffer_time; sendOK: channel.send returns.
LegacyScanWith(recent_episodes, recent, lookupOK, aged, sendOK, writable) ==
    /\ LET acc == BufferAll([buf |-> tv_buffer, pm |-> processed_movies,
                             touched |-> FALSE],
                            recent_episodes, recent, lookupOK)
           send == acc.buf # NoBuffer /\ (aged \/ acc.touched)
           left == IF send THEN AfterShowSend(acc.buf, sendOK) ELSE acc.buf
       IN  /\ processed_movies' = acc.pm
           /\ flushed' = IF send /\ sendOK THEN <<ShowMessage(acc.buf)>>
                          ELSE flushed
           /\ unsent' = IF send /\ ~sendOK THEN acc.buf ELSE NoBuffer
           /\ tv_buffer' = load_tv_buffer(left, Serializable(left, recent, writable))
    /\ UNCHANGED botVars
    /\ UNCHANGED <<first_cutoff, webhooks, result, legacyMovieVars>>

LegacyScan ==
    \E recent_episodes \in DiscoverySeqs, recent \in SUBSET LegacyEpisodes,
       lookupOK \in BOOLEAN, aged \in BOOLEAN, sendOK \in BOOLEAN,
       writable \in BOOLEAN :
       LegacyScanWith(recent_episodes, recent, lookupOK, aged, sendOK, writable)

NextLegacy == LegacyScan

SpecLegacy == Init /\ [][NextLegacy]_vars

\* The runs of check_for_new_media of a library that gains at most one
\* episode between two runs.
OneByOne == {q \in DiscoverySeqs : Len(q) <= 1}

LegacyScanOne ==
    \E recent_episodes \in OneByOne, recent \in SUBSET LegacyEpisodes,
       lookupOK \in BOOLEAN, aged \in BOOLEAN, sendOK \in BOOLEAN,
       writable \in BOOLEAN :
       LegacyScanWith(recent_episodes, recent, lookupOK, aged, sendOK, writable)

\* A run in which the buffer of the show has reached tv_buffer_time and
\* channel.send returns.
LegacyScanFlushing ==
    \E recent_episodes \in OneByOne, recent \in SUBSET LegacyEpisodes,
       lookupOK \in BOOLEAN, writable \in BOOLEAN :
       LegacyScanWith(recent_episodes, recent, lookupOK, TRUE, TRUE, writable)

NextLegacyFair == LegacyScanOne

\* The tasks.loop runs check_for_new_media again and again, the buffers age,
\* and sends succeed in the end.
SpecLegacyFair == Init /\ [][NextLegacyFair]_vars /\ WF_vars(LegacyScanFlushing)

\* ------------------------------------ plex_discord_bot.py: the movie loop
\* The movie part of check_for_new_media.  The TV part that follows it in
\* the same run shares processed_movies with it, but tests and adds episode
\* keys only; it is the show buffer above.
\*
\* PlexMonitor.get_recently_added_movies(MOVIE_LIBRARY, days=1): the same
\* walk as in plex_monitor.py, the cutoff always datetime.now() - 1 day.
legacy_recently_added_movies(lib, clock, connected, libOK) ==
    IF ~connected THEN <<>>
    ELSE IF ~libOK THEN <<>>
    ELSE TakeNewer(SortedByAddedAtDesc({m \in LegacyMovies : lib[m] # 0}, lib),
                   lib, CutoffDate(None, LookbackDays, clock))

\* for movie in recent_movies: if movie_key in processed_movies: continue
\* From position i on, the position of the first movie that is not in
\* processed_movies; past the end when there is none.
RECURSIVE NextUnprocessed(_, _, _)
NextUnprocessed(seq, i, pm) ==
    IF i > Len(seq) THEN i
    ELSE IF seq[i] \in pm THEN NextUnprocessed(seq, i + 1, pm)
    ELSE i

\* The run goes on from position i: it awaits the send of the next movie
\* that is not in processed_movies, or it is through with the movies.
MovieLoop(r, seq, i, pm) ==
    LET j == NextUnprocessed(seq, i, pm)
    IN  legacy_run' = [legacy_run EXCEPT ![r] =
            IF j > Len(seq) THEN NoRun
            ELSE [pc |-> "await_send", recent_movies |-> seq, i |-> j]]

\* OnMovieSendError with the exception leaving check_for_new_media.
OnMovieSendErrorAbort == "abort"

\* except Exception around the send of a movie: the error is logged and the
\* loop goes on with the next movie.
OnMovieSendError == "continue"

AddMovie(m) ==
    /\ movie_added[m] = 0
    /\ now < MaxTime
    /\ now' = now + 1
    /\ movie_added' = [movie_added EXCEPT ![m] = now + 1]
    /\ UNCHANGED <<addedAt, lastCheckFile, startupFlag, run, faults, ready, plex,
                   processed_media, last_check_time>>
    /\ UNCHANGED taskVars
    /\ UNCHANGED obsVars
    /\ UNCHANGED <<first_cutoff, webhooks, result, processed_movies, legacyTvVars>>
    /\ UNCHANGED <<legacy_run, movie_sent, send_failed>>

\* check_for_new_media is entered by caller r: the channel lookup, the new
\* PlexMonitor and the movie query, up to the first send.
LegacyCheck(r) ==
    /\ legacy_run[r].pc = "idle"
    /\ \E channel \in BOOLEAN, connected \in BOOLEAN, libOK \in BOOLEAN :
          IF ~channel THEN UNCHANGED legacy_run
          ELSE MovieLoop(r, legacy_recently_added_movies(movie_added, now,
                                                         connected, libOK),
                         1, processed_movies)
    /\ UNCHANGED botVars
    /\ UNCHANGED <<first_cutoff, webhooks, result, processed_movies, legacyTvVars>>
    /\ UNCHANGED <<movie_added, movie_sent, send_failed>>

\* await channel.send(embed=embed) returns:
\* processed_movies.add(movie_key); save_processed_movies(processed_movies)
LegacySendReturn(r) ==
    /\ legacy_run[r].pc = "await_send"
    /\ LET m == legacy_run[r].recent_movies[legacy_run[r].i]
       IN  /\ movie_sent' = [movie_sent EXCEPT ![m] = IF @ < 2 THEN @ + 1 ELSE @]
           /\ processed_movies' = processed_movies \cup {m}
           /\ MovieLoop(r, legacy_run[r].recent_movies, legacy_run[r].i + 1,
                         processed_movies \cup {m})
    /\ UNCHANGED botVars
    /\ UNCHANGED <<first_cutoff, webhooks, result, legacyTvVars>>
    /\ UNCHANGED <<movie_added, send_failed>>

\* await channel.send(embed=embed) raises.
LegacySendRaise(r) ==
    /\ legacy_run[r].pc = "await_send"
    /\ send_failed' = send_failed \cup {legacy_run[r].recent_movies[legacy_run[r].i]}
    /\ IF OnMovieSendError = "continue"
       THEN MovieLoop(r, legacy_run[r].recent_movies, legacy_run[r].i + 1,
                      processed_movies)
       ELSE legacy_run' = [legacy_run EXCEPT ![r] = NoRun]
    /\ UNCHANGED botVars
    /\ UNCHANGED <<first_cutoff, webhooks, result, processed_movies, legacyTvVars>>
    /\ UNCHANGED <<movie_added, movie_sent>>

NextLegacyMovies ==
    \/ \E m \in LegacyMovies : AddMovie(m)
    \/ Tick
    \/ \E r \in LegacyRuns : LegacyCheck(r)
    \/ \E r \in LegacyRuns : LegacySendReturn(r)
    \/ \E r \in LegacyRuns : LegacySendRaise(r)

SpecLegacyMovies == Init /\ [][NextLegacyMovies]_vars

\* ------------------------------------------- main.py: check_for_new_movies
\* The movie-only bot.  Its library is movie_added; result holds the global
\* last_check_time, the position of the task (in "await_send" it awaits
\* channel.send for new_movies[i]), its locals current_time and new_movies,
\* and the number of messages sent per movie.
\*
\* new_movies = [movie for movie in movies if movie.addedAt > last_check_time]
\* over the result of search(sort="addedAt:desc")
NewMovies(lib, since) ==
    LET After(m) == lib[m] > since
    IN  SelectSeq(SortedByAddedAtDesc({m \in LegacyMovies : lib[m] # 0}, lib), After)

\* last_check_time = datetime.now() - timedelta(days=1) when the module loads
MainStart ==
    /\ result = NoCall
    /\ result' = [op |-> "main", last_check_time |-> now - Day, pc |-> "idle",
                  current_time |-> now, new_movies |-> <<>>, i |-> 0,
                  sent |-> [m \in LegacyMovies |-> 0]]
    /\ UNCHANGED botVars
    /\ UNCHANGED <<first_cutoff, webhooks, processed_movies, legacyTvVars, legacyMovieVars>>

\* An iteration of the tasks.loop up to its first await.  When PlexServer
\* or the search raises, the except logs it and nothing has changed.  With
\* no new movie, or with no channel, last_check_time is set at once.
MainCheck ==
    /\ result.op = "main"
    /\ result.pc = "idle"
    /\ \E plexOK \in BOOLEAN, channel \in BOOLEAN :
          LET new_movies == NewMovies(movie_added, result.last_check_time)
          IN  result' =
                  IF ~plexOK THEN result
                  ELSE IF new_movies = <<>> \/ ~channel
                  THEN [result EXCEPT !.last_check_time = now]
                  ELSE [result EXCEPT !.pc = "await_send", !.current_time = now,
                                      !.new_movies = new_movies, !.i = 1]
    /\ UNCHANGED botVars
    /\ UNCHANGED <<first_cutoff, webhooks, processed_movies, legacyTvVars, legacyMovieVars>>

\* await channel.send(embed=embed) returns; after asyncio.sleep(1) the loop
\* goes on, and past the last movie last_check_time = current_time.
MainSendReturn ==
    /\ result.op = "main"
    /\ result.pc = "await_send"
    /\ LET m == result.new_movies[result.i]
           counted == [result EXCEPT !.sent[m] = IF @ < 2 THEN @ + 1 ELSE @]
       IN  result' =
               IF result.i < Len(result.new_movies)
               THEN [counted EXCEPT !.i = @ + 1]
               ELSE [counted EXCEPT !.pc = "idle", !.new_movies = <<>>, !.i = 0,
                                    !.last_check_time = result.current_time]
    /\ UNCHANGED botVars
    /\ UNCHANGED <<first_cutoff, webhooks, processed_movies, legacyTvVars, legacyMovieVars>>

\* await channel.send(embed=embed) raises: except Exception logs it and the
\* iteration is over; last_check_time is as before.
MainSendRaise ==
    /\ result.op = "main"
    /\ result.pc = "await_send"
    /\ result' = [result EXCEPT !.pc = "idle", !.new_movies = <<>>, !.i = 0]
    /\ UNCHANGED botVars
    /\ UNCHANGED <<first_cutoff, webhooks, processed_movies, legacyTvVars, legacyMovieVars>>

NextMain ==
    \/ \E m \in LegacyMovies : AddMovie(m)
    \/ Tick
    \/ MainStart
    \/ MainCheck
    \/ MainSendReturn
    \/ MainSendRaise

SpecMain == Init /\ [][NextMain]_vars

\* ------------------------------------------------------ on_ready on its own
\* on_ready is registered twice, with @self.bot.event and with
\* bot.add_listener, so that every ready event of the gateway (the first
\* connection and every reconnect that does not resume the session) starts
\* two invocations.  result holds the flag file, the number of ready events,
\* the position of every invocation and the number of startup sequences
\* begun.
Handlers == {"event", "listener"}

StartupBegin ==
    /\ result = NoCall
    /\ \E startup_completed \in BOOLEAN :
          result' = [op |-> "startup", flag |-> startup_completed, events |-> 0,
                     inv |-> <<>>, sequences |-> 0, checks |-> 0,
                     create_failed |-> FALSE]
    /\ UNCHANGED botVars
    /\ UNCHANGED <<first_cutoff, webhooks, processed_movies, legacyTvVars, legacyMovieVars>>

\* The gateway dispatches ready: each handler runs up to its
\* await self.bot.change_presence(...).
ReadyEvent ==
    /\ result.op = "startup"
    /\ result.events < MaxReady
    /\ result' = [result EXCEPT !.events = @ + 1,
                                !.inv = @ \o <<"change_presence", "change_presence">>]
    /\ UNCHANGED botVars
    /\ UNCHANGED <<first_cutoff, webhooks, processed_movies, legacyTvVars, legacyMovieVars>>

\* change_presence returns to invocation i.  When reading the recent media
\* raised, on_ready returns after it.  Otherwise
\*   startup_completed = os.path.exists(self.startup_flag_file)
\*   if not startup_completed: try: open(..., "w") except Exception: log
\* and, with a debug channel, the welcome message is sent.
OnReadyResume(i) ==
    /\ result.op = "startup"
    /\ i \in 1..Len(result.inv)
    /\ result.inv[i] = "change_presence"
    /\ \E activityOK \in BOOLEAN, created \in BOOLEAN, debug_channel \in BOOLEAN :
          result' =
              IF ~activityOK \/ result.flag
              THEN [result EXCEPT !.inv[i] = "done"]
              ELSE [result EXCEPT
                       !.flag = created,
                       !.create_failed = @ \/ ~created,
                       !.sequences = IF debug_channel THEN @ + 1 ELSE @,
                       !.inv[i] = IF debug_channel THEN "send_welcome" ELSE "done"]
    /\ UNCHANGED botVars
    /\ UNCHANGED <<first_cutoff, webhooks, processed_movies, legacyTvVars, legacyMovieVars>>

\* await debug_channel.send(embed=startup_embed) returns or raises (the
\* exception is logged); the initial check follows:
\* await self._check_for_new_media(manual=False)
WelcomeDone(i) ==
    /\ result.op = "startup"
    /\ i \in 1..Len(result.inv)
    /\ result.inv[i] = "send_welcome"
    /\ result' = [result EXCEPT !.inv[i] = "initial_check", !.checks = @ + 1]
    /\ UNCHANGED botVars
    /\ UNCHANGED <<first_cutoff, webhooks, processed_movies, legacyTvVars, legacyMovieVars>>

\* The initial check returns or raises (the exception is reported).
InitialCheckDone(i) ==
    /\ result.op = "startup"
    /\ i \in 1..Len(result.inv)
    /\ result.inv[i] = "initial_check"
    /\ result' = [result EXCEPT !.inv[i] = "done"]
    /\ UNCHANGED botVars
    /\ UNCHANGED <<first_cutoff, webhooks, processed_movies, legacyTvVars, legacyMovieVars>>

NextStartup ==
    \/ StartupBegin
    \/ ReadyEvent
    \/ \E i \in 1..(2 * MaxReady) : OnReadyResume(i)
    \/ \E i \in 1..(2 * MaxReady) : WelcomeDone(i)
    \/ \E i \in 1..(2 * MaxReady) : InitialCheckDone(i)

SpecStartup == Init /\ [][NextStartup]_vars

\* -------------------------------------------------- PlexDiscordBot.run alone
\* run(): check_media_task.start(), then
\*   await asyncio.wait_for(self.bot.start(self.token), timeout=60)
\* bot.start logs in and then runs the gateway connection; it returns only
\* when the bot is closed.  result holds the seconds since wait_for was
\* entered, whether the gateway has reported ready, the number of scans of
\* the periodic task, and how run() stands: "connected" while bot.start
\* runs, "timed_out" and "start_error" after run() returned.  main()
\* returns with run(), and asyncio.run cancels the periodic task.
RunStart ==
    /\ result = NoCall
    /\ result' = [op |-> "run", elapsed |-> 0, ready |-> FALSE, scans |-> 0,
                  state |-> "connected"]
    /\ UNCHANGED botVars
    /\ UNCHANGED <<first_cutoff, webhooks, processed_movies, legacyTvVars, legacyMovieVars>>

\* A second passes while bot.start runs.
RunSecond ==
    /\ result.op = "run"
    /\ result.state = "connected"
    /\ result.elapsed < RunTimeout
    /\ result' = [result EXCEPT !.elapsed = @ + 1]
    /\ UNCHANGED botVars
    /\ UNCHANGED <<first_cutoff, webhooks, processed_movies, legacyTvVars, legacyMovieVars>>

\* The gateway reports ready.
RunReady ==
    /\ result.op = "run"
    /\ result.state = "connected"
    /\ ~result.ready
    /\ result' = [result EXCEPT !.ready = TRUE]
    /\ UNCHANGED botVars
    /\ UNCHANGED <<first_cutoff, webhooks, processed_movies, legacyTvVars, legacyMovieVars>>

\* An iteration of check_media_task past wait_until_ready().
RunScan ==
    /\ result.op = "run"
    /\ result.state = "connected"
    /\ result.ready
    /\ result.scans < MaxScans
    /\ result' = [result EXCEPT !.scans = @ + 1]
    /\ UNCHANGED botVars
    /\ UNCHANGED <<first_cutoff, webhooks, processed_movies, legacyTvVars, legacyMovieVars>>

\* The timer of wait_for expires: bot.start is cancelled, TimeoutError is
\* caught and run() returns.  wait_for does not look at whether the bot
\* has become ready.
RunTimesOut ==
    /\ result.op = "run"
    /\ result.state = "connected"
    /\ result.elapsed = RunTimeout
    /\ result' = [result EXCEPT !.state = "timed_out"]
    /\ UNCHANGED botVars
    /\ UNCHANGED <<first_cutoff, webhooks, processed_movies, legacyTvVars, legacyMovieVars>>

\* bot.start raises (the login is refused): except Exception, run() returns.
RunStartRaises ==
    /\ result.op = "run"
    /\ result.state = "connected"
    /\ ~result.ready
    /\ result' = [result EXCEPT !.state = "start_error"]
    /\ UNCHANGED botVars
    /\ UNCHANGED <<first_cutoff, webhooks, processed_movies, legacyTvVars, legacyMovieVars>>

NextRun ==
    \/ RunStart
    \/ RunSecond
    \/ RunReady
    \/ RunScan
    \/ RunTimesOut
    \/ RunStartRaises

SpecRun == Init /\ [][NextRun]_vars

\* ------------------------------------------------------- PlexWebhookServer
\* handle_webhook with a library.new event for item k of the library:
\* _handle_new_media calls discord_bot.announce_new_movie_from_webhook (or
\* ..._episode_..., ..._show_...).  PlexDiscordBot defines none of the three,
\* the AttributeError is caught and logged by _handle_new_media, and the
\* request is answered with 200.
HandleWebhook(k) ==
    /\ addedAt[k] # 0
    /\ NoSyncRunning
    /\ webhooks' = webhooks \cup {k}
    /\ UNCHANGED botVars
    /\ UNCHANGED <<first_cutoff, result, processed_movies, legacyTvVars,
                   legacyMovieVars>>

\* A request to handle_webhook.  post: request.post() returns or raises;
\* payload: the form has no `payload` field, or the field is an uploaded
\* file, a text that is no JSON, or a JSON text; value: the JSON text is an
\* object or another value (a list, a number, null); event: the object has
\* no "event", a falsy one (""), or an event type; metadata: the object has
\* no "Metadata", an object, or another value (null, a string); type: the
\* "type" of the metadata; announce: what the announce method of the bot
\* does when _handle_new_media calls it.
WebhookRequests ==
    [post : {"ok", "raises"},
     payload : {"absent", "file", "bad_json", "json"},
     value : {"object", "other"},
     event : {"absent", "empty", "library.new", "media.play", "media.pause"},
     metadata : {"absent", "object", "other"},
     type : {"movie", "episode", "show", "track"},
     announce : {"returns", "raises"}]

\* _handle_new_media: whatever the announce method raises is caught and
\* logged; the call returns.
handle_new_media(req) ==
    IF req.type \in {"movie", "episode", "show"} /\ req.announce = "raises"
    THEN "logged" ELSE "done"

\* The status that handle_webhook answers with.  Every exception inside the
\* try is answered with 500: of request.post(), of json.loads (the field is
\* no text or no JSON), of payload.get (the value is no object) and of
\* payload.get('Metadata', {}).get('title', ...) in the log line that comes
\* before the test of the event (the metadata is no object).
handle_webhook(req) ==
    IF req.post = "raises" THEN 500
    ELSE IF req.payload = "absent" THEN 400
    ELSE IF req.payload \in {"file", "bad_json"} THEN 500
    ELSE IF req.value # "object" THEN 500
    ELSE IF req.metadata = "other" THEN 500
    ELSE IF req.event \in {"absent", "empty"} THEN 400
    ELSE IF req.event = "library.new"
         THEN (IF handle_new_media(req) \in {"done", "logged"} THEN 200 ELSE 500)
    ELSE 200

WebhookRequest ==
    /\ result = NoCall
    /\ \E req \in WebhookRequests :
          result' = [op |-> "webhook", req |-> req, status |-> handle_webhook(req)]
    /\ UNCHANGED botVars
    /\ UNCHANGED <<first_cutoff, webhooks, processed_movies, legacyTvVars, legacyMovieVars>>

NextWebhookRequest == WebhookRequest

SpecWebhookRequest == Init /\ [][NextWebhookRequest]_vars

\* The webhook server beside the polling of the periodic task.
NextWebhook ==
    \/ \E k \in Items : AddItem(k)
    \/ Tick
    \/ OnReady
    \/ CheckMediaTask
    \/ ScanQuery("periodic")
    \/ SendReturn("periodic")
    \/ Finalize("periodic")
    \/ \E k \in Items : HandleWebhook(k)

SpecWebhook == Init /\ [][NextWebhook]_vars
\* ------------------------------------------------------------------ claims
QueuePositions(k) ==
    UNION {{<<t, j>> : j \in {i \in 1..Len(new_items[t]) : new_items[t][i][1] = k}} :
           t \in Tasks}

\* C1: within one run of the process no key is sent a second time: every key
\* is delivered at most once, and a key already in processed_media is never
\* queued again (it stands at most once in the queues of the scans).
C1_NoSecondNotification ==
    \A k \in Items :
        /\ sentRun[k] <= 1
        /\ Cardinality(QueuePositions(k)) <= 1
        /\ QueuePositions(k) # {} => k \in processed_media

\* A later scan has run its queries with success, they returned a key that
\* was already delivered, and the scan queued nothing.
C1_Witness ==
    \E t \in Tasks, k \in Items :
        /\ pc[t] = "finalize"
        /\ new_items[t] = <<>>
        /\ ~srcFailed[t]
        /\ addedAt[k] # 0
        /\ addedAt[k] <= current_check_time[t]
        /\ IsNewer(addedAt[k], CutoffDate(last_check_time, LookbackDays, now))
        /\ sentRun[k] = 1

\* C2: at most one scan is in progress at any time.
C2_SingleFlight == Cardinality({t \in Tasks : Scanning(t)}) <= 1

\* C3: every key in processed_media belongs to an item whose notification
\* was sent with success or to an item classified as needing no notification.
C3_ProcessedOnlyAfterSend ==
    \A k \in processed_media : sentRun[k] > 0 \/ k \in skipped

\* The step in which the send awaited by task t raises.
SendFails(t) ==
    /\ pc[t] = "await_send"
    /\ run' = run
    /\ sentRun' = sentRun
    /\ <<pc'[t], attempts'[t]>> # <<pc[t], attempts[t]>>

\* C4: when the send for an item raises and the scan gives the item up, the
\* item's key is not in the announced set, so that a later scan offers it again.
C4_FailedSendLeftUnannounced ==
    [][\A t \in Tasks :
          SendFails(t) /\ pc'[t] # "await_send"
              => new_items[t][idx[t]][1] \notin processed_media']_vars

C6_SourceFailureKeepsCheckpoint ==
    [][\A t \in Tasks :
          pc[t] = "finalize" /\ srcFailed[t] /\ pc'[t] # "finalize" /\ run' = run
              => /\ last_check_time' = last_check_time
                 /\ lastCheckFile' = lastCheckFile]_vars

\* C7: the key of an event whose channel could not be resolved is not added
\* to processed_media.
C7_UnresolvedChannelNotProcessed ==
    \A t \in Tasks : \A j \in 1..Len(new_items[t]) :
        new_items[t][j][2] = NoChannel => new_items[t][j][1] \notin processed_media

\* C8: after a restart that cut a scan short between a delivery and the
\* write of the check time, the first scan whose queries succeed takes up
\* again every item that scan had delivered.
C8_ReofferAfterCrash ==
    [][\A t \in Tasks :
          /\ pc[t] = "query"
          /\ run' = run
          /\ pc'[t] \in {"await_send", "finalize"}
          /\ ~srcFailed'[t]
          => owed \subseteq processed_media']_vars

\* C9: every key in the announced set when the process stops is in the
\* announced set after it has started again.
C9_AnnouncedSetDurable ==
    [][run' # run => processed_media \subseteq processed_media']_vars

C11_PeriodicNeverStops == pc["periodic"] # "stopped"

\* C12: the process does not exit while a scan holds an item that was sent
\* but whose scan has not yet written the check time.
C12_NoExitBeforeCheckpoint ==
    [][run' # run => \A t \in Tasks : Delivered(t) = {}]_vars

\* C13: an item whose library.new webhook has been handled is in the
\* announced set: it was there already, or the webhook announced and
\* recorded it.
C13_WebhookRecordsItem == \A k \in webhooks : k \in processed_media

\* The items of the listing of the queried kind that were added strictly
\* after the cutoff, in the order of the listing.
AddedAfterCutoff(r) ==
    LET kind == IF r.op = "movies" THEN Movies ELSE Episodes
        cutoff == IF r.since = None THEN r.clock - r.days * Day ELSE r.since
        listing == SortedByAddedAtDesc({k \in kind : r.lib[k] # 0}, r.lib)
        After(k) == r.lib[k] > cutoff
    IN  SelectSeq(listing, After)

DaysSinceAired(r) == (r.clock - r.air) \div Day

AirDateParses(r) == r.air # NoAirDate /\ r.air # BadAirDate

\* C15 as stated: every new episode with season 1 and episode 1 goes to the
\* new-shows channel, whatever its air date.
C15_PremiereAlwaysNewShows ==
    result.op = "classify" /\ result.season = 1 /\ result.episode = 1
        => result.ch = "new_shows"

\* C15 amended: with notify_new_shows on, every new episode with season 1
\* and episode 1 goes to the new-shows channel, whatever its air date; with
\* notify_new_shows off it is classified like any other episode.
C15_PremiereWhenNotified ==
    result.op = "classify" /\ result.season = 1 /\ result.episode = 1
        => IF result.nns THEN result.ch = "new_shows"
           ELSE result.ch = IF /\ result.nre
                               /\ AirDateParses(result)
                               /\ DaysSinceAired(result) <= RecentEpisodeDays
                            THEN "recent" ELSE ""

\* A season 1 episode 1 that also aired within the recent-episode window,
\* with both notifications on, went to the new-shows channel.
C15_Witness ==
    /\ result.op = "classify"
    /\ result.season = 1 /\ result.episode = 1
    /\ result.nns /\ result.nre
    /\ AirDateParses(result)
    /\ DaysSinceAired(result) <= RecentEpisodeDays
    /\ result.ch = "new_shows"

\* C16 as stated: a new episode other than season 1 episode 1 goes to the
\* recent-episodes channel exactly when its air date parses and lies at most
\* recent_episode_days whole days back.
C16_RecentIffAiredInWindow ==
    result.op = "classify" /\ ~(result.season = 1 /\ result.episode = 1)
        => (result.ch = "recent"
              <=> AirDateParses(result) /\ DaysSinceAired(result) <= RecentEpisodeDays)

\* C16 amended: a new episode that does not take the premiere branch goes to
\* the recent-episodes channel exactly when notify_recent_episodes is on, its
\* air date parses and lies at most recent_episode_days whole days back.
C16_RecentWhenNotified ==
    result.op = "classify"
    /\ ~(result.nns /\ result.season = 1 /\ result.episode = 1)
        => (result.ch = "recent"
              <=> /\ result.nre
                  /\ AirDateParses(result)
                  /\ DaysSinceAired(result) <= RecentEpisodeDays)

\* An episode 2 whose air date is exactly recent_episode_days whole days
\* back went to the recent-episodes channel.
C16_Witness ==
    /\ result.op = "classify"
    /\ result.episode = 2
    /\ result.nre
    /\ AirDateParses(result)
    /\ DaysSinceAired(result) = RecentEpisodeDays
    /\ result.ch = "recent"

C18_OneMessagePerShow ==
    \A t \in Tasks : \A i \in 1..Len(new_items[t]), j \in 1..Len(new_items[t]) :
        /\ i # j
        /\ new_items[t][i][1] \in Episodes
        /\ new_items[t][j][1] \in Episodes
        => show_title(new_items[t][i][1]) # show_title(new_items[t][j][1])

\* (season, episode) of a comes before that of b, or they are equal.
NotAfter(a, b) ==
    \/ season_number(a) < season_number(b)
    \/ season_number(a) = season_number(b) /\ episode_number(a) <= episode_number(b)

HasPremiere(episodes) ==
    \E i \in 1..Len(episodes) :
        IsFirstEpisode(season_number(episodes[i]), episode_number(episodes[i]))

AllItemsNew(r) ==
    \A k \in Items :
        /\ r.lib[k] # 0
        /\ r.lib[k] <= r.clock
        /\ r.lib[k] > r.clock - LookbackDays * Day

\* C22: from an empty checkpoint, one scan over a library holding the new
\* movie m1 and the new episodes e1 (S1E1) and e2 (S1E2) of one show sends
\* exactly two messages, one for m1 to the movie channel and one to the
\* new-shows channel that covers both e1 and e2, and the announced set is
\* {m1, e1, e2} afterwards.  (A message of the scan covers the one item it
\* was built from.)
C22_OneScanTwoMessages ==
    result.op = "scan" /\ result.resolved /\ AllItemsNew(result)
        => /\ Len(result.q) = 2
           /\ \E i \in 1..Len(result.q) : result.q[i] = <<"m1", "movie">>
           /\ \E j \in 1..Len(result.q) :
                 /\ result.q[j][2] = "new_shows"
                 /\ \A k \in Episodes : result.q[j][1] = k
           /\ result.pm = {"m1", "e1", "e2"}

\* C25: get_recently_added_movies and get_recently_added_episodes never
\* raise, and return the empty list when the server is not connected, the
\* library is not found or the library search raises.
C25_QueriesNeverRaise ==
    result.op \in {"movies", "episodes"}
        => /\ ~result.raised
           /\ ~result.ok => result.out = <<>>

\* The search raised on a connected server whose library holds an item
\* newer than the cutoff, and the query returned the empty list.
C25_Witness ==
    /\ result.op = "movies"
    /\ result.connected /\ result.found /\ ~result.searchOK
    /\ result.since = None
    /\ result.lib["m1"] # 0
    /\ result.lib["m1"] > result.clock - result.days * Day
    /\ result.out = <<>>
    /\ ~result.raised

\* The outcomes of the attempts of a connect() so far.
ConnectLog == IF result.op = "connect" THEN result.log ELSE <<>>

ConnectReturned(v) == result.op = "connect" /\ result.ret = v

\* C26: connect() makes at most connect_retry attempts and returns: True as
\* soon as an attempt succeeds, False at once after an authentication
\* failure, False when every attempt has failed.
C26_ConnectTerminates ==
    /\ [](/\ result.op = "connect" => Len(result.log) <= result.connect_retry
          /\ \A i \in 1..Len(ConnectLog) :
                /\ ConnectLog[i] \in {"ok", "unauthorized"} => i = Len(ConnectLog)
                /\ ConnectLog[i] = "ok" => ConnectReturned("True")
                /\ ConnectLog[i] = "unauthorized" => ConnectReturned("False")
          /\ ConnectReturned("True") =>
                ConnectLog # <<>> /\ ConnectLog[Len(ConnectLog)] = "ok"
          /\ ConnectReturned("False") =>
                \A i \in 1..Len(ConnectLog) : ConnectLog[i] # "ok")
    /\ <>(result.op = "connect" /\ result.ret # "running")

\* connect() of plex_monitor.py with connect_retry 3 returned False after
\* three attempts that failed.
C26_Witness ==
    /\ result.op = "connect"
    /\ result.impl = "package"
    /\ result.connect_retry = ConnectRetry
    /\ result.log = <<"connection_error", "other_error", "connection_error">>
    /\ result.ret = "False"

\* The keys of the events in the queue of task t's scan.
QueuedKeys(t) == {new_items[t][i][1] : i \in 1..Len(new_items[t])}

\* The keys of the events of task t's scan that are not sent yet.
PendingKeys(t) ==
    {new_items[t][i][1] : i \in {j \in 1..Len(new_items[t]) : j >= idx[t]}}

\* C27: when the scans of two tasks overlap, no item is in the queue of
\* both, a queued item is in processed_media from the step that queued it
\* on, and an item still waiting in a queue has not been sent: no
\* interleaving at the awaits sends an item twice.
C27_OverlapSendsOnce ==
    \A t1 \in Tasks : \A t2 \in Tasks \ {t1} :
        Scanning(t1) /\ Scanning(t2)
            => \A k \in Items :
                  /\ ~(k \in QueuedKeys(t1) /\ k \in QueuedKeys(t2))
                  /\ k \in QueuedKeys(t1) => k \in processed_media
                  /\ k \in PendingKeys(t1) => sentRun[k] = 0
                  /\ sentRun[k] <= 1

\* The send of an item is awaited by one scan while a second scan, whose
\* queries returned the same item, has queued its events without it.
C27_Witness ==
    \E t1 \in Tasks : \E t2 \in Tasks \ {t1}, k \in Items :
        /\ pc[t1] = "await_send"
        /\ new_items[t1][idx[t1]][1] = k
        /\ pc[t2] = "await_send"
        /\ ~srcFailed[t2]
        /\ k \notin QueuedKeys(t2)
        /\ addedAt[k] # 0
        /\ addedAt[k] <= current_check_time[t2]
        /\ last_check_time = None
        /\ IsNewer(addedAt[k], CutoffDate(None, LookbackDays, now))

\* C28: in plex_discord_bot.py no movie is sent twice, however a run of
\* check_for_new_media started by `!checkplex` interleaves with a run of the
\* periodic task.
C28_LegacyMovieSentOnce == \A m \in LegacyMovies : movie_sent[m] <= 1

\* The movie whose send run r awaits.
AwaitedMovie(r) == legacy_run[r].recent_movies[legacy_run[r].i]

\* The step in which the send awaited by run r raises.
MovieSendFails(r) ==
    /\ legacy_run[r].pc = "await_send"
    /\ legacy_run'[r] # legacy_run[r]
    /\ movie_sent' = movie_sent
    /\ legacy_run[r].recent_movies[legacy_run[r].i] \in send_failed'

\* The movies of the library that a query at this instant returns.
InLookback(m) ==
    movie_added[m] # 0 /\ movie_added[m] > now - LookbackDays * Day

\* C29: in plex_discord_bot.py a movie whose send raises is not added to
\* processed_movies; the run goes on to the next movie of its list that is
\* not processed; the run ends when there is none; and a run that starts
\* and awaits a send takes up every unprocessed movie still inside the
\* lookback window, the one whose send raised among them.
C29_FailedMovieRetried ==
    [][\A r \in LegacyRuns :
          /\ MovieSendFails(r) =>
                /\ processed_movies' = processed_movies
                /\ movie_sent' = movie_sent
                /\ LET seq == legacy_run[r].recent_movies
                       rest == {j \in 1..Len(seq) :
                                   j > legacy_run[r].i /\ seq[j] \notin processed_movies}
                   IN  IF rest = {} THEN legacy_run'[r] = NoRun
                       ELSE /\ legacy_run'[r].pc = "await_send"
                            /\ legacy_run'[r].recent_movies = seq
                            /\ legacy_run'[r].i \in rest
                            /\ \A j \in rest : legacy_run'[r].i <= j
          /\ legacy_run[r].pc = "idle" /\ legacy_run'[r].pc = "await_send" =>
                \A m \in LegacyMovies :
                    InLookback(m) /\ m \notin processed_movies
                        => \E j \in 1..Len(legacy_run'[r].recent_movies) :
                              /\ legacy_run'[r].recent_movies[j] = m
                              /\ j >= legacy_run'[r].i]_vars

\* A run awaits the send of the newer movie, whose send raised before, at
\* the head of its list, and the older movie has been sent.
C29_Witness ==
    \E r \in LegacyRuns, m \in LegacyMovies, m2 \in LegacyMovies :
        /\ legacy_run[r].pc = "await_send"
        /\ legacy_run[r].i = 1
        /\ AwaitedMovie(r) = m
        /\ m \in send_failed
        /\ movie_sent[m] = 0
        /\ movie_added[m2] # 0
        /\ movie_added[m] > movie_added[m2]
        /\ movie_sent[m2] = 1
        /\ \A r2 \in LegacyRuns \ {r} : legacy_run[r2].pc = "idle"

\* C30: when nothing has failed and no scan is running, every item added
\* after the cutoff of the first query and not later than last_check_time
\* (the cutoff of every scan to come) has been taken up by a scan: it was
\* sent, or classified as needing no notification.
C30_NoItemMissed ==
    \A k \in Items :
        /\ faults = 0
        /\ \A t \in Tasks : ~Scanning(t)
        /\ first_cutoff # NoCutoff
        /\ last_check_time # None
        /\ addedAt[k] # 0
        /\ addedAt[k] > first_cutoff
        /\ addedAt[k] <= last_check_time
        => /\ k \in processed_media
           /\ sentRun[k] > 0 \/ k \in skipped

C24_StorageNeverRaises ==
    result.op \in {"load", "save_load"} /\ result.impl = "media"
        => /\ ~result.raised
           /\ result.op = "load" /\ result.file.kind # "array"
                 => result.value = {}

\* C31: the check time never moves backwards while the process runs: every
\* assignment to last_check_time sets a time not before the one it
\* replaces, and every time written to the file is not before the time the
\* file held.
C31_CheckpointMonotone ==
    [][run' = run =>
          /\ last_check_time # None => last_check_time' >= last_check_time
          /\ lastCheckFile \notin {NoFile, Corrupt} /\ lastCheckFile' # Corrupt
                => lastCheckFile' >= lastCheckFile]_vars

\* C32: whatever the number of on_ready invocations, the startup sequence
\* (welcome message and initial check) is begun at most once, and only by
\* an invocation that found no flag file.
C32_StartupAtMostOnce ==
    result.op = "startup" => result.sequences <= 1

\* The last call of _check_for_new_media met one of the three early exits.
ExitsEarly(r) ==
    \/ ~r.ready
    \/ ~r.connected /\ ~r.connectOK
    \/ ~r.movie_channel

\* The step in which task t calls _check_for_new_media.
HeadStep(t) ==
    /\ result' # result
    /\ result'.op = "head"
    /\ result'.t = t

\* C33: a call of _check_for_new_media that finds the bot not ready, or
\* Plex not connected and not reconnecting, or no movie channel, returns at
\* once: processed_media, last_check_time and the check-time file are as
\* before, nothing is queued or sent, and the caller is not in a scan.
C33_EarlyExitChangesNothing ==
    [][\A t \in Tasks :
          HeadStep(t) /\ ExitsEarly(result')
              => /\ processed_media' = processed_media
                 /\ last_check_time' = last_check_time
                 /\ lastCheckFile' = lastCheckFile
                 /\ sentRun' = sentRun
                 /\ skipped' = skipped
                 /\ new_items'[t] = <<>>
                 /\ ~Scanning(t)']_vars

\* After a scan that announced an item and saved its check time, a call
\* found no movie channel and returned, with a new item in the library.
C33_Witness ==
    /\ result.op = "head"
    /\ ~result.movie_channel
    /\ result.ready /\ result.connected
    /\ pc[result.t] = "idle"
    /\ last_check_time # None
    /\ processed_media # {}
    /\ \E k \in Items :
          /\ addedAt[k] > last_check_time
          /\ k \notin processed_media
          /\ sentRun[k] = 0

\* C34: with notify_movies off a scan neither sends a movie nor adds one to
\* processed_media; with notify_new_shows off it sends nothing to the
\* new-shows channel; with notify_recent_episodes off it sends nothing to
\* the recent-episodes channel.
C34_FlagsGateDispatch ==
    result.op = "flags"
        => /\ ~result.nm =>
                 /\ \A i \in 1..Len(result.q) : result.q[i][1] \notin Movies
                 /\ result.pm \cap Movies = result.before \cap Movies
           /\ ~result.nns =>
                 \A i \in 1..Len(result.q) : result.q[i][2] # "new_shows"
           /\ ~result.nre =>
                 \A i \in 1..Len(result.q) : result.q[i][2] # "recent"

\* With only notify_recent_episodes on, a scan over a library whose movie
\* and both episodes are new sent the recently aired e2 to the
\* recent-episodes channel and nothing else; the premiere e1 is recorded
\* and the movie is not.
C34_Witness ==
    /\ result.op = "flags"
    /\ ~result.nm /\ ~result.nns /\ result.nre
    /\ result.before = {}
    /\ \A k \in Items : result.lib[k] > result.clock - LookbackDays * Day
    /\ \A k \in Items : result.lib[k] # 0 /\ result.lib[k] <= result.clock
    /\ result.q = <<<<"e2", "recent">>>>
    /\ result.pm = {"e1", "e2"}

\* C35: the timeout of run() ends the bot only while the bot has not become
\* ready: a bot that is ready is never stopped by it.
C35_TimeoutOnlyBeforeReady ==
    result.op = "run" /\ result.ready => result.state # "timed_out"

\* Episode k is listed in a show message that was sent.
FlushedEpisode(k) ==
    \E m \in 1..Len(flushed) : \E i \in 1..Len(flushed[m].episodes) :
        flushed[m].episodes[i] = k

\* Episode k is in the entry whose send raised in the last run.
LeftUnsent(k) == \E i \in 1..Len(unsent.episodes) : unsent.episodes[i] = k

PayloadObject(req) ==
    req.post = "ok" /\ req.payload = "json" /\ req.value = "object"

\* C37: handle_webhook answers 400 when the request has no payload field or
\* the payload has no event, 500 when the payload is no JSON, and 200 for
\* every payload that carries an event type, whatever the event type and
\* whether or not the handling of a library.new event fails.
C37_WebhookStatus ==
    result.op = "webhook" =>
        LET req == result.req
        IN  /\ req.post = "ok" /\ req.payload = "absent" => result.status = 400
            /\ PayloadObject(req) /\ req.event \in {"absent", "empty"}
                  => result.status = 400
            /\ req.post = "ok" /\ req.payload = "bad_json" => result.status = 500
            /\ PayloadObject(req) /\ req.event \notin {"absent", "empty"}
                  => result.status = 200

\* C38: in main.py every movie is announced at most once over the
\* successive runs of check_for_new_movies, also when a run raised after
\* some of its sends.
C38_MainMovieSentOnce ==
    result.op = "main" => \A m \in LegacyMovies : result.sent[m] <= 1
====
